---- MODULE Spec2Model ----
(***************************************************************************)
(* Relationship-derivation engine of mini_lively: the relationship type    *)
(* registry, the relationship calculator, the user-to-member edges and the *)
(* invitation workflow (backend/app/{models,crud,services,routers}).       *)
(***************************************************************************)
EXTENDS Integers, Sequences, FiniteSets, TLC

(***************************************************************************)
(* Bounds of the model.                                                    *)
(***************************************************************************)
MaxInvitations == 3
MaxTime == 2
NumMembers == 2
MaxTtl == 1
MaxGraphInvitations == 1
MaxLifecycleInvitations == 2
MaxInflight == 2

(***************************************************************************)
(* Users (rows of the users table, models/user.py).  Registration is       *)
(* outside the engine: two registered users with fixed stored emails, one  *)
(* of them stored in mixed case.                                           *)
(***************************************************************************)
Users == {"a", "b"}

NoUser == "none"

UserEmail == [u \in Users |-> IF u = "a" THEN "a@x" ELSE "B@x"]

\* str.lower() on the email strings of the model
Lower(e) == IF e = "B@x" THEN "b@x" ELSE IF e = "A@x" THEN "a@x" ELSE e

Members == 1..NumMembers

NoRel == "none"

NoTime == -1

\* InvitationStatus values
PENDING == "pending"
ACCEPTED == "accepted"
DECLINED == "declined"
EXPIRED == "expired"
CANCELLED == "cancelled"

Terminal == {ACCEPTED, DECLINED, EXPIRED, CANCELLED}

(***************************************************************************)
(* Relationship type registry.                                             *)
(***************************************************************************)
\* RelationshipType.get_default_relationship_types: name -> row
DefaultTypes ==
  [parent       |-> [is_active |-> TRUE, calculation_rules |->
                       [opposite |-> "child", spouse_relation |-> "step_parent",
                        sibling_relation |-> "aunt_uncle", parent_relation |-> "grandparent"]],
   child        |-> [is_active |-> TRUE, calculation_rules |->
                       [opposite |-> "parent", spouse_relation |-> "step_child",
                        sibling_relation |-> "niece_nephew", child_relation |-> "grandchild"]],
   spouse       |-> [is_active |-> TRUE, calculation_rules |->
                       [opposite |-> "spouse", parent_relation |-> "parent_in_law",
                        child_relation |-> "step_child", sibling_relation |-> "sibling_in_law"]],
   sibling      |-> [is_active |-> TRUE, calculation_rules |->
                       [opposite |-> "sibling", parent_relation |-> "aunt_uncle",
                        child_relation |-> "niece_nephew", spouse_relation |-> "sibling_in_law"]],
   grandparent  |-> [is_active |-> TRUE, calculation_rules |->
                       [opposite |-> "grandchild", spouse_relation |-> "step_grandparent",
                        sibling_relation |-> "great_aunt_uncle"]],
   grandchild   |-> [is_active |-> TRUE, calculation_rules |->
                       [opposite |-> "grandparent", spouse_relation |-> "step_grandchild"]],
   step_parent  |-> [is_active |-> TRUE, calculation_rules |-> [opposite |-> "step_child"]],
   step_child   |-> [is_active |-> TRUE, calculation_rules |-> [opposite |-> "step_parent"]],
   aunt_uncle   |-> [is_active |-> TRUE, calculation_rules |->
                       [opposite |-> "niece_nephew", spouse_relation |-> "aunt_uncle_in_law"]],
   niece_nephew |-> [is_active |-> TRUE, calculation_rules |-> [opposite |-> "aunt_uncle"]],
   guardian     |-> [is_active |-> TRUE, calculation_rules |-> [opposite |-> "ward"]],
   ward         |-> [is_active |-> TRUE, calculation_rules |-> [opposite |-> "guardian"]]]

\* the empty rule map {} / a NULL calculation_rules column
NoRules == [k \in {} |-> NoRel]

\* fallback_patterns of RelationshipCalculator._apply_fallback_rules
fallback_patterns ==
  [parent      |-> [spouse |-> "step_parent", sibling |-> "aunt_uncle", parent |-> "grandparent"],
   child       |-> [spouse |-> "step_child", sibling |-> "niece_nephew", child |-> "grandchild"],
   spouse      |-> [child |-> "step_child", parent |-> "parent_in_law", sibling |-> "sibling_in_law"],
   sibling     |-> [spouse |-> "sibling_in_law", child |-> "niece_nephew", parent |-> "aunt_uncle"],
   grandparent |-> [spouse |-> "step_grandparent"],
   grandchild  |-> [spouse |-> "step_grandchild"]]

\* fallback_patterns.get((r1, r2)): None when the pair is not listed
apply_fallback_rules(r1, r2) ==
  IF r1 \in DOMAIN fallback_patterns /\ r2 \in DOMAIN fallback_patterns[r1]
  THEN fallback_patterns[r1][r2]
  ELSE NoRel

\* lookup_rules without the is_active filter
lookup_rules_any_activity(reg, name) ==
  IF name \in DOMAIN reg /\ DOMAIN reg[name].calculation_rules # {}
  THEN reg[name].calculation_rules
  ELSE NoRules

\* the query of get_relationship_rules: the active type of that name, its
\* rules when they are set and non-empty, {} otherwise
lookup_rules(reg, name) ==
  IF name \in DOMAIN reg /\ reg[name].is_active
     /\ DOMAIN reg[name].calculation_rules # {}
  THEN reg[name].calculation_rules
  ELSE NoRules

\* get_relationship_rules: the per-instance cache after the call
get_relationship_rules(cache, reg, name) ==
  IF name \in DOMAIN cache
  THEN cache
  ELSE [n \in DOMAIN cache \cup {name} |->
          IF n = name THEN lookup_rules(reg, name) ELSE cache[n]]

\* rule_key = f"{inviter_to_invitee_relationship}_relation"
rule_key(r2) == r2 \o "_relation"

\* calculate_derived_relationship with the fallback table consulted first
calculate_derived_relationship_fallback_first(cache, reg, r1, r2) ==
  LET cache2 == get_relationship_rules(cache, reg, r1)
      member_rules == cache2[r1]
  IN [result |-> IF apply_fallback_rules(r1, r2) # NoRel
                 THEN apply_fallback_rules(r1, r2)
                 ELSE IF rule_key(r2) \in DOMAIN member_rules
                      THEN member_rules[rule_key(r2)]
                      ELSE NoRel,
      cache |-> cache2]

\* calculate_derived_relationship reading the rules of whichever name the
\* cache got first, as a cache that is not keyed by the name would
calculate_derived_relationship_unkeyed(cache, reg, r1, r2) ==
  LET cache2 == get_relationship_rules(cache, reg, r1)
      member_rules == IF DOMAIN cache # {}
                      THEN cache2[CHOOSE n \in DOMAIN cache : TRUE]
                      ELSE cache2[r1]
  IN [result |-> IF rule_key(r2) \in DOMAIN member_rules
                 THEN member_rules[rule_key(r2)]
                 ELSE apply_fallback_rules(r1, r2),
      cache |-> cache2]

\* calculate_derived_relationship on a calculator whose cache is `cache`:
\* the result and the cache afterwards
calculate_derived_relationship(cache, reg, r1, r2) ==
  LET cache2 == get_relationship_rules(cache, reg, r1)
      member_rules == cache2[r1]
  IN [result |-> IF rule_key(r2) \in DOMAIN member_rules
                 THEN member_rules[rule_key(r2)]
                 ELSE apply_fallback_rules(r1, r2),
      cache |-> cache2]

\* RelationshipCalculator.__init__: an empty cache
EmptyCache == [n \in {} |-> NoRules]


(***************************************************************************)
(* State.                                                                  *)
(*   now          datetime.utcnow(), in ticks                              *)
(*   invitations  the user_invitations table: a sequence indexed by id;    *)
(*                the invitation_token of row i is modelled by i           *)
(*   edges        the usertomember table: a set of rows                    *)
(*   members      the number of rows of the members table (ids 1..members) *)
(*   types        the relationship_types table: name -> row                *)
(*   inflight     the requests that have passed their checks and have not  *)
(*                reached their commit yet: what their sessions hold       *)
(*   calculator   a RelationshipCalculator that outlives one call: its     *)
(*                rules cache and the answers it has given                 *)
(*   last         the outcome of the last call, as its caller sees it      *)
(***************************************************************************)
VARIABLES now, invitations, edges, members, types, inflight, calculator, last

vars == <<now, invitations, edges, members, types, inflight, calculator, last>>

\* the response of a call: which operation, on which invitation and for
\* which user, how it ended, and what it returned
Resp(op, id, user, result) ==
  [op |-> op, id |-> id, user |-> user, result |-> result,
   created |-> {}, derived |-> NoRel, count |-> 0, args |-> <<>>]

(***************************************************************************)
(* UserInvitation (models/user_invitation.py).                             *)
(***************************************************************************)
\* UserInvitation.is_expired
is_expired(inv, t) == t > inv.expires_at

\* is_pending without the status test
is_pending_any_status(inv, t) == ~is_expired(inv, t)

\* is_pending that lets a DECLINED invitation through
is_pending_or_declined(inv, t) ==
  inv.status \in {PENDING, DECLINED} /\ ~is_expired(inv, t)

\* UserInvitation.is_pending
is_pending(inv, t) == inv.status = PENDING /\ ~is_expired(inv, t)

\* UserInvitation.create_invitation: the new row.  ids is the list given in
\* the request ({} when none was given)
new_invitation(inviter, email, intended, share_all, ids, ttl, t) ==
  [inviter_user_id |-> inviter,
   invitee_email |-> Lower(email),
   invitee_user_id |-> NoUser,
   status |-> PENDING,
   intended_relationship |-> intended,
   share_all_members |-> share_all,
   specific_member_ids |-> IF ~share_all /\ ids # {} THEN ids ELSE {},
   expires_at |-> t + ttl,
   responded_at |-> NoTime]

\* UserInvitation.get_member_ids_to_share
get_member_ids_to_share(inv) ==
  IF inv.share_all_members THEN {} ELSE inv.specific_member_ids

(***************************************************************************)
(* UserToMember (models/usertomember.py).                                  *)
(***************************************************************************)
\* UserToMember.create_relationship: the new row (is_active defaults to True;
\* invitation_id 0 stands for NULL)
create_relationship(user, member, relation, created_by, invitation_id, is_shareable, is_manager) ==
  [user_id |-> user, member_id |-> member, relation |-> relation,
   created_by_user_id |-> created_by, invitation_id |-> invitation_id,
   is_shareable |-> is_shareable, is_manager |-> is_manager,
   is_active |-> TRUE]

\* a table without the unique constraint
unique_violation_never(E, e) == FALSE

\* UniqueConstraint('user_id', 'member_id'): inserting row e into table E
\* violates it when a row of that pair exists, active or not
unique_violation(E, e) ==
  \E x \in E : x.user_id = e.user_id /\ x.member_id = e.member_id

\* ForeignKey("relationship_types.name") on relation: the name must be a row
\* of the registry
relation_fk_ok(reg, relation) == relation \in DOMAIN reg

\* the flush of a set of new edge rows at commit succeeds
insert_ok(E, reg, new) ==
  \A e \in new : ~unique_violation(E, e) /\ relation_fk_ok(reg, e.relation)

\* get_user_member_relationship: the active rows of the pair
get_user_member_relationship(E, user, member) ==
  {e \in E : e.user_id = user /\ e.member_id = member /\ e.is_active}

(***************************************************************************)
(* RelationshipCalculator.process_invitation_acceptance.                   *)
(***************************************************************************)
\* _get_members_to_share without the is_manager filter
get_members_to_share_unmanaged(E, inv) ==
  LET base == {e \in E : /\ e.user_id = inv.inviter_user_id
                         /\ e.is_active
                         /\ e.is_shareable}
  IN IF inv.share_all_members
     THEN base
     ELSE IF get_member_ids_to_share(inv) # {}
          THEN {e \in base : e.member_id \in get_member_ids_to_share(inv)}
          ELSE {}

\* _get_members_to_share
get_members_to_share(E, inv) ==
  LET base == {e \in E : /\ e.user_id = inv.inviter_user_id
                         /\ e.is_active
                         /\ e.is_shareable
                         /\ e.is_manager}
  IN IF inv.share_all_members
     THEN base
     ELSE IF get_member_ids_to_share(inv) # {}
          THEN {e \in base : e.member_id \in get_member_ids_to_share(inv)}
          ELSE {}

\* intended_or_family with "spouse" as the label of an unset relationship
intended_or_spouse(inv) ==
  IF inv.intended_relationship = NoRel THEN "spouse" ELSE inv.intended_relationship

\* invitation.intended_relationship or "family"
intended_or_family(inv) ==
  IF inv.intended_relationship = NoRel THEN "family" ELSE inv.intended_relationship

\* derived_edge with the flags of the source edge copied to the new row
derived_edge_copies_flags(inv, id, invitee, c, r3) ==
  create_relationship(invitee, c.member_id, r3, inv.inviter_user_id, id,
                      c.is_shareable, c.is_manager)

\* the row process_invitation_acceptance builds for candidate edge c and
\* derived relation r3
derived_edge(inv, id, invitee, c, r3) ==
  create_relationship(invitee, c.member_id, r3, inv.inviter_user_id, id, FALSE, FALSE)

\* invitee_edges without the user filter
invitee_edges_any_user(E, invitee, member) ==
  {e \in E : e.member_id = member /\ e.is_active}

\* the "relationship already exists" query of the loop: the active rows of
\* the invitee for that member
invitee_edges(E, invitee, member) ==
  {e \in E : e.user_id = invitee /\ e.member_id = member /\ e.is_active}

\* the loop over members_to_share, in the order the query returned them: the
\* rows added to the session.  id is the invitation's id; the session does
\* not autoflush, so the existence query sees table E only
RECURSIVE derive_loop(_, _, _, _, _, _, _, _)
derive_loop(todo, cache, created, E, reg, inv, id, invitee) ==
  IF todo = {}
  THEN created
  ELSE LET c == CHOOSE x \in todo : TRUE
           calc == calculate_derived_relationship(cache, reg, c.relation,
                                                  intended_or_family(inv))
           existing == invitee_edges(E, invitee, c.member_id)
           new == IF calc.result # NoRel /\ existing = {}
                  THEN {derived_edge(inv, id, invitee, c, calc.result)}
                  ELSE {}
       IN derive_loop(todo \ {c}, calc.cache, created \cup new, E, reg, inv,
                      id, invitee)

\* process_invitation_acceptance: the rows it adds to the session
derived_edges(E, reg, inv, id, invitee) ==
  derive_loop(get_members_to_share(E, inv), EmptyCache, {}, E, reg, inv, id, invitee)

\* UserInvitation.accept: the row after a successful accept
accepted(inv, invitee, t) ==
  [inv EXCEPT !.status = ACCEPTED, !.invitee_user_id = invitee, !.responded_at = t]


(***************************************************************************)
(* Invitation workflow (crud/user_invitation.py, routers/invitation.py).   *)
(***************************************************************************)
\* UserInvitationBase.validate_member_ids.  The validator runs only when the
\* request carries specific_member_ids (given)
validate_member_ids(share_all, given, ids) ==
  IF ~given THEN TRUE
  ELSE IF ~share_all /\ ids = {} THEN FALSE
  ELSE IF share_all /\ ids # {} THEN FALSE
  ELSE TRUE

\* the users whose stored email equals e (User.email == e)
users_by_email(e) == {u \in Users : UserEmail[u] = e}

\* validate_invitation_email without the pending-invitation query
validate_invitation_email_no_pending(invs, inviter, email, t) ==
  LET e == Lower(email)
      connected == \E u \in users_by_email(e) : \E i \in DOMAIN invs :
                     /\ invs[i].status = ACCEPTED
                     /\ \/ /\ invs[i].inviter_user_id = inviter
                           /\ invs[i].invitee_user_id = u
                        \/ /\ invs[i].inviter_user_id = u
                           /\ invs[i].invitee_user_id = inviter
  IN IF Lower(UserEmail[inviter]) = e THEN "self"
     ELSE IF connected THEN "already_connected"
     ELSE ""

\* validate_invitation_email: "" when the email can be invited, the reason
\* otherwise
validate_invitation_email(invs, inviter, email, t) ==
  LET e == Lower(email)
      live == {i \in DOMAIN invs : /\ invs[i].inviter_user_id = inviter
                                   /\ invs[i].invitee_email = e
                                   /\ invs[i].status = PENDING
                                   /\ invs[i].expires_at > t}
      connected == \E u \in users_by_email(e) : \E i \in DOMAIN invs :
                     /\ invs[i].status = ACCEPTED
                     /\ \/ /\ invs[i].inviter_user_id = inviter
                           /\ invs[i].invitee_user_id = u
                        \/ /\ invs[i].inviter_user_id = u
                           /\ invs[i].invitee_user_id = inviter
  IN IF Lower(UserEmail[inviter]) = e THEN "self"
     ELSE IF live # {} THEN "pending_exists"
     ELSE IF connected THEN "already_connected"
     ELSE ""

\* the rows the pending-invitation query of create_invitation matches;
\* .first() returns one of them, in no stated order
pending_for(invs, inviter, email) ==
  {i \in DOMAIN invs : /\ invs[i].inviter_user_id = inviter
                       /\ invs[i].invitee_email = Lower(email)
                       /\ invs[i].status = PENDING}

\* create_invitation from its first query on: the self-invitation test
\* against the stored email, the pending-invitation test on the row .first()
\* returned, then the insert
create_invitation(inviter, email, intended, share_all, given, ids, ttl) ==
  LET id == Len(invitations) + 1
      matching == pending_for(invitations, inviter, email)
  IN IF inviter \in users_by_email(Lower(email))
     THEN /\ last' = Resp("send", 0, inviter, "self")
          /\ UNCHANGED invitations
     ELSE \E first \in (IF matching = {} THEN {0} ELSE matching) :
            IF first # 0 /\ ~is_expired(invitations[first], now)
            THEN /\ last' = Resp("send", 0, inviter, "pending_exists")
                 /\ UNCHANGED invitations
            ELSE /\ invitations' = Append(invitations,
                       new_invitation(inviter, email, intended, share_all,
                                      IF given THEN ids ELSE {}, ttl, now))
                 /\ last' = Resp("send", id, inviter, "ok")

\* POST /invitations/ (send_invitation): request validation, then
\* validate_invitation_email, then create_invitation
SendInvitation(inviter, email, intended, share_all, given, ids, ttl) ==
  /\ Len(invitations) < MaxInvitations
  /\ LET reason == validate_invitation_email(invitations, inviter, email, now)
     IN IF ~validate_member_ids(share_all, given, ids)
        THEN /\ last' = Resp("send", 0, inviter, "validation_error")
             /\ UNCHANGED invitations
        ELSE IF reason # ""
        THEN /\ last' = Resp("send", 0, inviter, reason)
             /\ UNCHANGED invitations
        ELSE create_invitation(inviter, email, intended, share_all, given, ids, ttl)
  /\ UNCHANGED <<now, edges, members, types, inflight, calculator>>

\* send_invitation up to db.add of create_invitation: the request is
\* validated, the queries of validate_invitation_email and create_invitation
\* have run, and the new row is in the session of this request, not yet in
\* the table.  req tells the requests in flight apart, as their tokens do
BeginSendInvitation(inviter, email, intended, share_all, given, ids, ttl) ==
  /\ Cardinality(inflight) < MaxInflight
  /\ Len(invitations) + Cardinality(inflight) < MaxInvitations
  /\ LET reason == validate_invitation_email(invitations, inviter, email, now)
         matching == pending_for(invitations, inviter, email)
         req == CHOOSE k \in 1..MaxInflight : \A r \in inflight : r.req # k
         row == new_invitation(inviter, email, intended, share_all,
                               IF given THEN ids ELSE {}, ttl, now)
     IN IF ~validate_member_ids(share_all, given, ids)
        THEN /\ last' = Resp("send", 0, inviter, "validation_error")
             /\ UNCHANGED inflight
        ELSE IF reason # ""
        THEN /\ last' = Resp("send", 0, inviter, reason)
             /\ UNCHANGED inflight
        ELSE IF inviter \in users_by_email(Lower(email))
        THEN /\ last' = Resp("send", 0, inviter, "self")
             /\ UNCHANGED inflight
        ELSE \E first \in (IF matching = {} THEN {0} ELSE matching) :
               IF first # 0 /\ ~is_expired(invitations[first], now)
               THEN /\ last' = Resp("send", 0, inviter, "pending_exists")
                    /\ UNCHANGED inflight
               ELSE /\ inflight' = inflight \cup {[req |-> req, row |-> row]}
                    /\ last' = Resp("send_begin", 0, inviter, "ok")
  /\ UNCHANGED <<now, invitations, edges, members, types, calculator>>

\* create_invitation from db.commit on, for the request r: the row is
\* inserted; no constraint of user_invitations involves the pair
CommitSendInvitation(r) ==
  /\ r \in inflight
  /\ inflight' = inflight \ {r}
  /\ invitations' = Append(invitations, r.row)
  /\ last' = Resp("send", Len(invitations) + 1, r.row.inviter_user_id, "ok")
  /\ UNCHANGED <<now, edges, members, types, calculator>>

\* accept_check with the email test before the state test
accept_check_email_first(invs, token, user, t) ==
  IF token \notin DOMAIN invs THEN "not_found"
  ELSE IF Lower(UserEmail[user]) # Lower(invs[token].invitee_email) THEN "email_mismatch"
  ELSE IF ~is_pending(invs[token], t) THEN "invalid_state"
  ELSE ""

\* validate_invitation_email(inviter, email), as its caller sees it: "ok" for
\* (True, ""), the reason otherwise
ValidateInvitationEmail(inviter, email) ==
  /\ LET reason == validate_invitation_email(invitations, inviter, email, now)
     IN last' = [Resp("validate_email", 0, inviter,
                      IF reason = "" THEN "ok" ELSE reason)
                   EXCEPT !.args = <<email>>]
  /\ UNCHANGED <<now, invitations, edges, members, types, inflight, calculator>>

\* the checks of accept_invitation before it changes anything: "" when they
\* pass, the error otherwise
accept_check(invs, token, user, t) ==
  IF token \notin DOMAIN invs THEN "not_found"
  ELSE IF ~is_pending(invs[token], t) THEN "invalid_state"
  ELSE IF Lower(UserEmail[user]) # Lower(invs[token].invitee_email) THEN "email_mismatch"
  ELSE ""

\* accept_commit with one commit per row: the invitation row and every edge
\* row that can be inserted are written, whatever happens to the others
accept_commit_per_row(invs, E, reg, token, inv2, new, storage_ok) ==
  [ok |-> storage_ok /\ insert_ok(E, reg, new),
   invitations |-> [invs EXCEPT ![token] = inv2],
   edges |-> E \cup {e \in new : storage_ok /\ insert_ok(E, reg, {e})}]

\* the commit at the end of process_invitation_acceptance: the session holds
\* the changed invitation row inv2 and the new edge rows; either all of it is
\* written, or the commit raises and db.rollback() drops all of it
accept_commit(invs, E, reg, token, inv2, new, storage_ok) ==
  IF storage_ok /\ insert_ok(E, reg, new)
  THEN [ok |-> TRUE, invitations |-> [invs EXCEPT ![token] = inv2], edges |-> E \cup new]
  ELSE [ok |-> FALSE, invitations |-> invs, edges |-> E]

\* accept_invitation.  storage_ok: the storage layer is available at commit
AcceptInvitation(token, user, storage_ok) ==
  /\ LET err == accept_check(invitations, token, user, now)
         inv2 == accepted(invitations[token], user, now)
         new == derived_edges(edges, types, inv2, token, user)
         done == accept_commit(invitations, edges, types, token, inv2, new, storage_ok)
     IN IF err # ""
        THEN /\ last' = Resp("accept", token, user, err)
             /\ UNCHANGED <<invitations, edges>>
        ELSE /\ invitations' = done.invitations
             /\ edges' = done.edges
             /\ last' = IF done.ok
                        THEN [Resp("accept", token, user, "ok") EXCEPT !.created = new]
                        ELSE Resp("accept", token, user, "storage_error")
  /\ UNCHANGED <<now, members, types, inflight, calculator>>

\* the rows get_invitation_preview iterates over: the query of the
\* share_all_members branch, and the query of the member-id branch, which
\* has no is_manager filter
preview_member_relationships(E, inv) ==
  IF inv.share_all_members
  THEN {e \in E : /\ e.user_id = inv.inviter_user_id
                  /\ e.is_active
                  /\ e.is_shareable
                  /\ e.is_manager}
  ELSE IF get_member_ids_to_share(inv) # {}
       THEN {e \in E : /\ e.user_id = inv.inviter_user_id
                       /\ e.member_id \in get_member_ids_to_share(inv)
                       /\ e.is_active
                       /\ e.is_shareable}
       ELSE {}

\* get_invitation_preview: how the call ends and the members_to_share it
\* returns.  An unknown or non-pending invitation gives {}; the loop body
\* reads member_rel.relationship, an attribute UserToMember does not have,
\* so the first row of the loop raises AttributeError
get_invitation_preview(invs, E, token, t) ==
  IF token \notin DOMAIN invs \/ ~is_pending(invs[token], t)
  THEN [result |-> "empty", members_to_share |-> {}]
  ELSE IF preview_member_relationships(E, invs[token]) # {}
       THEN [result |-> "attribute_error", members_to_share |-> {}]
       ELSE [result |-> "ok", members_to_share |-> {}]

\* GET /invitations/preview/{token}
GetInvitationPreview(token) ==
  /\ LET preview == get_invitation_preview(invitations, edges, token, now)
     IN last' = [Resp("preview", token, NoUser, preview.result)
                   EXCEPT !.created = preview.members_to_share]
  /\ UNCHANGED <<now, invitations, edges, members, types, inflight, calculator>>

\* accept_invitation up to its commit: the checks have passed on the row as
\* read, invitation.accept has changed the row in the session of this
\* request, and the loop of process_invitation_acceptance has run its
\* queries and added the new edge rows to the session
BeginAcceptInvitation(token, user) ==
  /\ Cardinality(inflight) < MaxInflight
  /\ LET err == accept_check(invitations, token, user, now)
         inv2 == accepted(invitations[token], user, now)
         new == derived_edges(edges, types, inv2, token, user)
         req == CHOOSE k \in 1..MaxInflight : \A r \in inflight : r.req # k
     IN IF err # ""
        THEN /\ last' = Resp("accept", token, user, err)
             /\ UNCHANGED inflight
        ELSE /\ inflight' = inflight \cup
                  {[req |-> req, token |-> token, user |-> user, inv2 |-> inv2, new |-> new]}
             /\ last' = Resp("accept_begin", token, user, "ok")
  /\ UNCHANGED <<now, invitations, edges, members, types, calculator>>

\* the commit of process_invitation_acceptance for the request r: the UPDATE
\* of the three columns accept changed and the INSERT of the new edge rows,
\* checked by the table's constraints; a violation raises, db.rollback()
\* drops all of it and the accept fails
CommitAcceptInvitation(r) ==
  /\ r \in inflight
  /\ inflight' = inflight \ {r}
  /\ IF insert_ok(edges, types, r.new)
     THEN /\ invitations' = [invitations EXCEPT
                               ![r.token].status = r.inv2.status,
                               ![r.token].invitee_user_id = r.inv2.invitee_user_id,
                               ![r.token].responded_at = r.inv2.responded_at]
          /\ edges' = edges \cup r.new
          /\ last' = [Resp("accept", r.token, r.user, "ok") EXCEPT !.created = r.new]
     ELSE /\ last' = Resp("accept", r.token, r.user, "storage_error")
          /\ UNCHANGED <<invitations, edges>>
  /\ UNCHANGED <<now, members, types, calculator>>

\* decline_invitation
DeclineInvitation(token) ==
  /\ IF token \notin DOMAIN invitations
     THEN /\ last' = Resp("decline", token, NoUser, "not_found")
          /\ UNCHANGED invitations
     ELSE IF ~is_pending(invitations[token], now)
     THEN /\ last' = Resp("decline", token, NoUser, "invalid_state")
          /\ UNCHANGED invitations
     ELSE /\ invitations' = [invitations EXCEPT ![token].status = DECLINED,
                                                ![token].responded_at = now]
          /\ last' = Resp("decline", token, NoUser, "ok")
  /\ UNCHANGED <<now, edges, members, types, inflight, calculator>>

\* can_cancel with no test of the status
can_cancel_any_status(inv) == TRUE

\* the test of UserInvitation.cancel and of cancel_invitation: only a PENDING
\* invitation can be cancelled, expired or not
can_cancel(inv) == inv.status = PENDING

\* cancel_invitation
CancelInvitation(id, user) ==
  /\ IF id \notin DOMAIN invitations \/ invitations[id].inviter_user_id # user
     THEN /\ last' = Resp("cancel", id, user, "not_found")
          /\ UNCHANGED invitations
     ELSE IF ~can_cancel(invitations[id])
     THEN /\ last' = Resp("cancel", id, user, "invalid_state")
          /\ UNCHANGED invitations
     ELSE /\ invitations' = [invitations EXCEPT ![id].status = CANCELLED]
          /\ last' = Resp("cancel", id, user, "ok")
  /\ UNCHANGED <<now, edges, members, types, inflight, calculator>>

\* update_invitation.  upd: the fields the request sets (exclude_unset)
UpdateInvitation(id, upd) ==
  /\ IF id \notin DOMAIN invitations
     THEN /\ last' = Resp("update", id, NoUser, "not_found")
          /\ UNCHANGED invitations
     ELSE IF ~is_pending(invitations[id], now)
     THEN /\ last' = Resp("update", id, NoUser, "invalid_state")
          /\ UNCHANGED invitations
     ELSE /\ invitations' = [invitations EXCEPT ![id] =
                [f \in DOMAIN invitations[id] |->
                   IF f \in DOMAIN upd THEN upd[f] ELSE invitations[id][f]]]
          /\ last' = Resp("update", id, NoUser, "ok")
  /\ UNCHANGED <<now, edges, members, types, inflight, calculator>>

\* expired_invitations selecting only the rows strictly past their expiry
expired_invitations_strict(invs, t) ==
  {i \in DOMAIN invs : invs[i].status = PENDING /\ invs[i].expires_at < t}

\* the rows expire_old_invitations selects
expired_invitations(invs, t) ==
  {i \in DOMAIN invs : invs[i].status = PENDING /\ invs[i].expires_at <= t}

\* UserInvitation.mark_expired
mark_expired(inv) ==
  IF inv.status = PENDING THEN [inv EXCEPT !.status = EXPIRED] ELSE inv

\* expire_old_invitations
ExpireOldInvitations ==
  /\ invitations' = [i \in DOMAIN invitations |->
                       IF i \in expired_invitations(invitations, now)
                       THEN mark_expired(invitations[i])
                       ELSE invitations[i]]
  /\ last' = [Resp("expire", 0, NoUser, "ok") EXCEPT
                !.count = Cardinality(expired_invitations(invitations, now))]
  /\ UNCHANGED <<now, edges, members, types, inflight, calculator>>

\* the clock advances
Tick ==
  /\ now < MaxTime
  /\ now' = now + 1
  /\ last' = Resp("tick", 0, NoUser, "ok")
  /\ UNCHANGED <<invitations, edges, members, types, inflight, calculator>>


(***************************************************************************)
(* Members and edges (routers/member.py, crud/usertomember.py).            *)
(***************************************************************************)
\* POST /members/ (add_member): create_member commits the member, then the
\* edge of the current user to it is inserted; relation "" or unset
\* defaults to "child"
AddMember(user, relation) ==
  /\ members < NumMembers
  /\ members' = members + 1
  /\ LET rel == IF relation = NoRel THEN "child" ELSE relation
         new == create_relationship(user, members + 1, rel, user, 0, TRUE, TRUE)
     IN IF insert_ok(edges, types, {new})
        THEN /\ edges' = edges \cup {new}
             /\ last' = Resp("add_member", 0, user, "ok")
        ELSE \* IntegrityError: db.rollback(), the member stays
             /\ last' = Resp("add_member", 0, user, "storage_error")
             /\ UNCHANGED edges
  /\ UNCHANGED <<now, invitations, types, inflight, calculator>>

\* the checks of create_user_to_member_relationship before it builds the
\* row: "" when they pass, the error otherwise
create_check(E, reg, user, member, relation) ==
  IF get_user_member_relationship(E, user, member) # {} THEN "already_exists"
  ELSE IF ~(relation \in DOMAIN reg /\ reg[relation].is_active) THEN "invalid_type"
  ELSE ""

\* create_user_to_member_relationship, called for the user's own edge
\* (created_by_user_id = user_id), with no other request in between
CreateRelationship(user, member, relation, is_shareable, is_manager) ==
  /\ member \in 1..members
  /\ LET new == create_relationship(user, member, relation, user, 0,
                                    is_shareable, is_manager)
         err == create_check(edges, types, user, member, relation)
     IN IF err # ""
        THEN /\ last' = [Resp("create_edge", 0, user, err) EXCEPT !.args = <<member>>]
             /\ UNCHANGED edges
        ELSE IF ~insert_ok(edges, types, {new})
        THEN /\ last' = [Resp("create_edge", 0, user, "storage_error") EXCEPT !.args = <<member>>]
             /\ UNCHANGED edges
        ELSE \* committed; the log line after the commit then raises
             \* AttributeError (relationship.relationship)
             /\ edges' = edges \cup {new}
             /\ last' = [Resp("create_edge", 0, user, "raised_after_commit") EXCEPT !.args = <<member>>]
  /\ UNCHANGED <<now, invitations, members, types, inflight, calculator>>

\* create_user_to_member_relationship up to db.add: the two queries have
\* run and the row is in the session of this request, not yet in the table
BeginCreateRelationship(user, member, relation, is_shareable, is_manager) ==
  /\ member \in 1..members
  /\ Cardinality(inflight) < MaxInflight
  /\ LET new == create_relationship(user, member, relation, user, 0,
                                    is_shareable, is_manager)
         err == create_check(edges, types, user, member, relation)
     IN IF err # ""
        THEN /\ last' = Resp("create_edge", 0, user, err)
             /\ UNCHANGED inflight
        ELSE /\ inflight' = inflight \cup {new}
             /\ last' = Resp("create_edge_begin", 0, user, "ok")
  /\ UNCHANGED <<now, invitations, edges, members, types, calculator>>

\* create_user_to_member_relationship from db.commit on, for the request
\* holding row r: the insert is checked by the table's constraints
CommitCreateRelationship(r) ==
  /\ r \in inflight
  /\ inflight' = inflight \ {r}
  /\ IF insert_ok(edges, types, {r})
     THEN /\ edges' = edges \cup {r}
          /\ last' = Resp("create_edge", 0, r.user_id, "raised_after_commit")
     ELSE /\ last' = Resp("create_edge", 0, r.user_id, "storage_error")
          /\ UNCHANGED edges
  /\ UNCHANGED <<now, invitations, members, types, calculator>>

\* update_relationship_permissions on row e
UpdateRelationshipPermissions(e, is_shareable, is_manager) ==
  /\ e \in edges
  /\ edges' = (edges \ {e}) \cup
                {[e EXCEPT !.is_shareable = is_shareable, !.is_manager = is_manager]}
  /\ last' = Resp("update_permissions", 0, e.user_id, "ok")
  /\ UNCHANGED <<now, invitations, members, types, inflight, calculator>>

\* update_relationship on row e, the request setting relation: the type
\* check looks for the key 'relationship', which the request never has, so
\* only the foreign key checks the name
UpdateRelationship(e, relation) ==
  /\ e \in edges
  /\ IF relation_fk_ok(types, relation)
     THEN /\ edges' = (edges \ {e}) \cup {[e EXCEPT !.relation = relation]}
          /\ last' = Resp("update_edge", 0, e.user_id, "ok")
     ELSE /\ last' = Resp("update_edge", 0, e.user_id, "storage_error")
          /\ UNCHANGED edges
  /\ UNCHANGED <<now, invitations, members, types, inflight, calculator>>

\* delete_relationship on row e: UserToMember.soft_delete
DeleteRelationship(e) ==
  /\ e \in edges
  /\ edges' = (edges \ {e}) \cup {[e EXCEPT !.is_active = FALSE]}
  /\ last' = Resp("delete_edge", 0, e.user_id, "ok")
  /\ UNCHANGED <<now, invitations, members, types, inflight, calculator>>

(***************************************************************************)
(* Registry maintenance (crud/relationship_type.py) and the calculator as  *)
(* an operation of its own.                                                *)
(***************************************************************************)
\* update_relationship_rules on the row named name
UpdateRelationshipRules(name, rules) ==
  /\ name \in DOMAIN types
  /\ types' = [types EXCEPT ![name].calculation_rules = rules]
  /\ last' = Resp("update_rules", 0, NoUser, "ok")
  /\ UNCHANGED <<now, invitations, edges, members, inflight, calculator>>

\* update_relationship_type on the row named name, the request setting
\* is_active
UpdateRelationshipType(name, is_active) ==
  /\ name \in DOMAIN types
  /\ types' = [types EXCEPT ![name].is_active = is_active]
  /\ last' = Resp("update_type", 0, NoUser, "ok")
  /\ UNCHANGED <<now, invitations, edges, members, inflight, calculator>>

\* delete_relationship_type on the row named name: is_active = False
DeleteRelationshipType(name) ==
  /\ name \in DOMAIN types
  /\ types' = [types EXCEPT ![name].is_active = FALSE]
  /\ last' = Resp("delete_type", 0, NoUser, "ok")
  /\ UNCHANGED <<now, invitations, edges, members, inflight, calculator>>

\* create_relationship_type: a new row, active by default; the unique index
\* on name refuses a name that a row already has, active or not
CreateRelationshipType(name, rules) ==
  /\ IF name \in DOMAIN types
     THEN /\ last' = Resp("create_type", 0, NoUser, "storage_error")
          /\ UNCHANGED types
     ELSE /\ types' = [n \in DOMAIN types \cup {name} |->
                         IF n = name
                         THEN [is_active |-> TRUE, calculation_rules |-> rules]
                         ELSE types[n]]
          /\ last' = Resp("create_type", 0, NoUser, "ok")
  /\ UNCHANGED <<now, invitations, edges, members, inflight, calculator>>

\* get_relationship_type_by_name: the active rows of that name
get_relationship_type_by_name(reg, name) ==
  {n \in DOMAIN reg : n = name /\ reg[n].is_active}

\* seed_default_relationship_types: a row is added for every default name
\* that get_relationship_type_by_name does not find, and the commit inserts
\* them together; the unique index on name refuses the insert when one of
\* the names belongs to an inactive row
seed_default_relationship_types(reg) ==
  LET created_types == {n \in DOMAIN DefaultTypes :
                          get_relationship_type_by_name(reg, n) = {}}
  IN IF \A n \in created_types : n \notin DOMAIN reg
     THEN [ok |-> TRUE, count |-> Cardinality(created_types),
           types |-> [n \in DOMAIN reg \cup created_types |->
                        IF n \in created_types THEN DefaultTypes[n] ELSE reg[n]]]
     ELSE [ok |-> FALSE, count |-> 0, types |-> reg]

\* POST /seed-data
SeedDefaults ==
  /\ LET seeded == seed_default_relationship_types(types)
     IN /\ types' = seeded.types
        /\ last' = [Resp("seed", 0, NoUser,
                         IF seeded.ok THEN "ok" ELSE "storage_error")
                      EXCEPT !.count = seeded.count]
  /\ UNCHANGED <<now, invitations, edges, members, inflight, calculator>>

\* RelationshipCalculator(db).calculate_derived_relationship(r1, r2) on a
\* new calculator
CalculateDerived(r1, r2) ==
  /\ last' = [Resp("calculate", 0, NoUser, "ok") EXCEPT
                !.derived = calculate_derived_relationship(EmptyCache, types, r1, r2).result,
                !.args = <<r1, r2>>]
  /\ UNCHANGED <<now, invitations, edges, members, types, inflight, calculator>>

\* conflicts of RelationshipCalculator._get_conflicting_relationships
conflicts ==
  [parent      |-> {"child", "sibling", "spouse"},
   child       |-> {"parent", "sibling", "spouse"},
   spouse      |-> {"parent", "child", "sibling"},
   sibling     |-> {"parent", "child", "spouse"},
   grandparent |-> {"grandchild"},
   grandchild  |-> {"grandparent"}]

\* _get_conflicting_relationships: conflicts.get(relationship, [])
get_conflicting_relationships(relation) ==
  IF relation \in DOMAIN conflicts THEN conflicts[relation] ELSE {}

\* validate_relationship_compatibility: how the call ends.  With an active
\* edge of the pair the reason is built from existing.relationship, without
\* one the query is built from UserToMember.relationship; UserToMember has no
\* such attribute (the column is relation), so both raise AttributeError
validate_relationship_compatibility(E, user, member, relation) ==
  LET existing == get_user_member_relationship(E, user, member)
      conflicting_relationships == get_conflicting_relationships(relation)
  IN IF existing # {}
     THEN "attribute_error"
     ELSE "attribute_error"

\* validate_new_relationship: how the call ends.  "invalid_type" is the
\* return (False, reason); the reason of an existing edge is built from
\* existing.relationship and raises AttributeError
validate_new_relationship(E, reg, user, member, relation) ==
  IF get_user_member_relationship(E, user, member) # {}
  THEN "attribute_error"
  ELSE IF ~(relation \in DOMAIN reg /\ reg[relation].is_active)
       THEN "invalid_type"
       ELSE validate_relationship_compatibility(E, user, member, relation)

\* validate_new_relationship(user, member, relation), as its caller sees it
ValidateNewRelationship(user, member, relation) ==
  /\ member \in 1..members
  /\ last' = [Resp("validate", member, user,
                   validate_new_relationship(edges, types, user, member, relation))
                EXCEPT !.args = <<relation>>]
  /\ UNCHANGED <<now, invitations, edges, members, types, inflight, calculator>>

\* RelationshipCalculator(db): a new instance replaces the one held
NewCalculator ==
  /\ calculator' = [cache |-> EmptyCache, seen |-> {}]
  /\ last' = Resp("new_calculator", 0, NoUser, "ok")
  /\ UNCHANGED <<now, invitations, edges, members, types, inflight>>

\* calculate_derived_relationship(r1, r2) on the instance held: the rules of
\* r1 come from its cache when they are there
CalculateOnInstance(r1, r2) ==
  /\ LET calc == calculate_derived_relationship(calculator.cache, types, r1, r2)
     IN /\ calculator' = [cache |-> calc.cache,
                          seen |-> calculator.seen \cup {<<r1, r2, calc.result>>}]
        /\ last' = [Resp("calculate_on", 0, NoUser, "ok") EXCEPT
                      !.derived = calc.result, !.args = <<r1, r2>>]
  /\ UNCHANGED <<now, invitations, edges, members, types, inflight>>

(***************************************************************************)
(* Specifications.  Init is the empty store with the seeded registry.  The *)
(* operations are the same in every specification; each specification      *)
(* draws the requests from the sets that its properties are about.         *)
(***************************************************************************)
Init ==
  /\ now = 0
  /\ invitations = <<>>
  /\ edges = {}
  /\ members = 0
  /\ types = DefaultTypes
  /\ inflight = {}
  /\ calculator = [cache |-> EmptyCache, seen |-> {}]
  /\ last = Resp("init", 0, NoUser, "ok")

\* the other user
Other(u) == IF u = "a" THEN "b" ELSE "a"

\* the relation names requests use for edges: one that composes with
\* "spouse" and one that does not
EdgeRelations == {"parent", "guardian"}

\* the intended relationships invitations carry (NoRel: unset)
IntendedRelations == {NoRel, "spouse"}

\* the sharing scopes invitations are sent with: all members, or a list of
\* one member id
ShareScopes ==
  {[share_all |-> TRUE, given |-> FALSE, ids |-> {}]}
    \cup {[share_all |-> FALSE, given |-> TRUE, ids |-> {m}] : m \in Members}

(* Graph: user a builds a family graph and invites user b, who may hold     *)
(* edges of their own; the store may fail at commit.                        *)
GraphSend ==
  /\ Len(invitations) < MaxGraphInvitations
  /\ \E sc \in ShareScopes :
       SendInvitation("a", UserEmail["b"], "spouse", sc.share_all, sc.given, sc.ids, 1)

GraphAccept ==
  \E t \in 1..MaxGraphInvitations, u \in Users, ok \in BOOLEAN :
    AcceptInvitation(t, u, ok)

GraphAddMember == \E r \in EdgeRelations : AddMember("a", r)

GraphCreate ==
  \E m \in Members : CreateRelationship("b", m, "guardian", TRUE, TRUE)

GraphPermissions ==
  \E e \in edges, sh \in BOOLEAN, mg \in BOOLEAN :
    e.user_id = "a" /\ UpdateRelationshipPermissions(e, sh, mg)

GraphUpdate ==
  \E e \in edges, r \in EdgeRelations : e.user_id = "a" /\ UpdateRelationship(e, r)

GraphDelete == \E e \in edges : DeleteRelationship(e)

NextGraph ==
  \/ GraphSend
  \/ GraphAccept
  \/ GraphAddMember
  \/ GraphCreate
  \/ GraphPermissions
  \/ GraphUpdate
  \/ GraphDelete

SpecGraph == Init /\ [][NextGraph]_vars


(* Lifecycle: invitations between the two users are sent, answered,       *)
(* cancelled, updated and swept while the clock advances; user a has a     *)
(* member to share.                                                         *)
LifecycleSend ==
  /\ Len(invitations) < MaxLifecycleInvitations
  /\ \E u \in Users, ttl \in 1..MaxTtl :
       SendInvitation(u, UserEmail[Other(u)], "spouse", TRUE, FALSE, {}, ttl)

LifecycleAccept ==
  \E t \in 1..MaxLifecycleInvitations, u \in Users : AcceptInvitation(t, u, TRUE)

LifecycleDecline == \E t \in 1..MaxLifecycleInvitations : DeclineInvitation(t)

LifecycleCancel == \E i \in 1..MaxLifecycleInvitations, u \in Users : CancelInvitation(i, u)

LifecycleUpdate ==
  \E i \in 1..MaxLifecycleInvitations :
    UpdateInvitation(i, [intended_relationship |-> "sibling"])

LifecycleAddMember == members = 0 /\ AddMember("a", "parent")

NextLifecycle ==
  \/ LifecycleSend
  \/ LifecycleAccept
  \/ LifecycleDecline
  \/ LifecycleCancel
  \/ LifecycleUpdate
  \/ ExpireOldInvitations
  \/ Tick
  \/ LifecycleAddMember

SpecLifecycle == Init /\ [][NextLifecycle]_vars

(* Invitations of one pair: user a invites b's email again and again,     *)
(* while invitations are answered, cancelled and swept and the clock       *)
(* advances.                                                               *)
InviteCreate ==
  \E ttl \in 1..MaxTtl :
    SendInvitation("a", UserEmail["b"], "spouse", TRUE, FALSE, {}, ttl)

InviteAccept == \E t \in 1..MaxInvitations : AcceptInvitation(t, "b", TRUE)

InviteDecline == \E t \in 1..MaxInvitations : DeclineInvitation(t)

InviteCancel == \E i \in 1..MaxInvitations : CancelInvitation(i, "a")

NextInvite ==
  \/ InviteCreate
  \/ InviteAccept
  \/ InviteDecline
  \/ InviteCancel
  \/ ExpireOldInvitations
  \/ Tick

SpecInvite == Init /\ [][NextInvite]_vars

(* Calculator: the rules and the activity of two registry rows are edited  *)
(* and derived relationships are calculated for every pair of names.       *)
CalcTypes == {"parent", "guardian"}

\* the rule maps update requests carry: none, one that contradicts the
\* fallback table for (parent, spouse), and the seeded rules of parent
CalcRules ==
  {NoRules,
   [spouse_relation |-> "guardian"],
   DefaultTypes["parent"].calculation_rules}

\* the names calculations are asked for ("family": an unset intended
\* relationship; "cousin": not a row of the registry)
CalcNames == {"parent", "guardian", "spouse", "sibling", "family", "cousin"}

CalcUpdateRules ==
  \E n \in CalcTypes, r \in CalcRules : UpdateRelationshipRules(n, r)

CalcUpdateType ==
  \E n \in CalcTypes, act \in BOOLEAN : UpdateRelationshipType(n, act)

CalcDeleteType == \E n \in CalcTypes : DeleteRelationshipType(n)

CalcCalculate == \E r1, r2 \in CalcNames : CalculateDerived(r1, r2)

NextCalc ==
  \/ CalcUpdateRules
  \/ CalcUpdateType
  \/ CalcDeleteType
  \/ CalcCalculate

SpecCalc == Init /\ [][NextCalc]_vars

(* Fallback: registry rows lose their rules or their activity, and every   *)
(* pair of the fallback table, and pairs outside it, are calculated.       *)
FallbackFirst ==
  {"parent", "child", "spouse", "sibling", "grandparent", "grandchild",
   "guardian", "cousin"}

FallbackSecond == {"spouse", "sibling", "parent", "child", "family"}

FallbackDeleteType ==
  \E n \in FallbackFirst \cap DOMAIN types : DeleteRelationshipType(n)

FallbackClearRules ==
  \E n \in {"parent", "child"} : UpdateRelationshipRules(n, NoRules)

FallbackCalculate ==
  \E r1 \in FallbackFirst, r2 \in FallbackSecond : CalculateDerived(r1, r2)

NextFallback ==
  \/ FallbackDeleteType
  \/ FallbackClearRules
  \/ FallbackCalculate

SpecFallback == Init /\ [][NextFallback]_vars

(* Cache: one calculator instance answers calls in any order; the rules   *)
(* and the activity of parent are edited only while no instance has        *)
(* answered yet, so that every instance works on a fixed registry.         *)
CacheNames == {"parent", "guardian", "cousin"}

CacheIntended == {"spouse", "family"}

CacheFresh == calculator = [cache |-> EmptyCache, seen |-> {}]

CacheUpdateRules ==
  /\ CacheFresh
  /\ \E r \in CalcRules : UpdateRelationshipRules("parent", r)

CacheUpdateType ==
  /\ CacheFresh
  /\ \E act \in BOOLEAN : UpdateRelationshipType("parent", act)

CacheCalculate ==
  \E r1 \in CacheNames, r2 \in CacheIntended : CalculateOnInstance(r1, r2)

NextCache ==
  \/ CacheUpdateRules
  \/ CacheUpdateType
  \/ NewCalculator
  \/ CacheCalculate

SpecCache == Init /\ [][NextCache]_vars

(* Family: user a holds members under every seeded relation and invites   *)
(* b with or without an intended relationship; the registry stays as       *)
(* seeded.                                                                 *)
FamilyAddMember == \E r \in DOMAIN DefaultTypes : AddMember("a", r)

FamilySend ==
  /\ Len(invitations) < MaxGraphInvitations
  /\ \E i \in IntendedRelations :
       SendInvitation("a", UserEmail["b"], i, TRUE, FALSE, {}, MaxTtl)

FamilyAccept ==
  \E t \in 1..MaxGraphInvitations, u \in Users : AcceptInvitation(t, u, TRUE)

NextFamily ==
  \/ FamilyAddMember
  \/ FamilySend
  \/ FamilyAccept

SpecFamily == Init /\ [][NextFamily]_vars

(* Scope: user a invites b with every combination of share_all_members    *)
(* and specific_member_ids, the list given or left out of the request.     *)
ScopeAddMember == AddMember("a", "parent")

ScopeSend ==
  /\ Len(invitations) < MaxLifecycleInvitations
  /\ \E share_all \in BOOLEAN, given \in BOOLEAN, ids \in SUBSET Members :
       /\ ~given => ids = {}
       /\ SendInvitation("a", UserEmail["b"], "spouse", share_all, given, ids, MaxTtl)

ScopeAccept ==
  \E t \in 1..MaxLifecycleInvitations : AcceptInvitation(t, "b", TRUE)

ScopeCancel ==
  \E i \in 1..MaxLifecycleInvitations : CancelInvitation(i, "a")

NextScope ==
  \/ ScopeAddMember
  \/ ScopeSend
  \/ ScopeAccept
  \/ ScopeCancel

SpecScope == Init /\ [][NextScope]_vars

(* Preview: user a holds members with every setting of the permissions and *)
(* invites b with every sharing scope; invitations are previewed as the    *)
(* clock advances.                                                         *)
PreviewAddMember == \E r \in EdgeRelations : AddMember("a", r)

PreviewPermissions ==
  \E e \in edges, sh \in BOOLEAN, mg \in BOOLEAN :
    UpdateRelationshipPermissions(e, sh, mg)

PreviewDelete == \E e \in edges : DeleteRelationship(e)

PreviewSend ==
  /\ Len(invitations) < MaxGraphInvitations
  /\ \E sc \in ShareScopes, r \in IntendedRelations :
       SendInvitation("a", UserEmail["b"], r, sc.share_all, sc.given, sc.ids, MaxTtl)

PreviewCall == \E t \in 1..MaxGraphInvitations : GetInvitationPreview(t)

NextPreview ==
  \/ PreviewAddMember
  \/ PreviewPermissions
  \/ PreviewDelete
  \/ PreviewSend
  \/ PreviewCall
  \/ Tick

SpecPreview == Init /\ [][NextPreview]_vars

(* Seeding: the registry starts empty, as the tables are created; types    *)
(* are seeded, created under canonical and other names, updated and        *)
(* deactivated.                                                            *)
InitUnseeded ==
  /\ now = 0
  /\ invitations = <<>>
  /\ edges = {}
  /\ members = 0
  /\ types = [n \in {} |-> [is_active |-> TRUE, calculation_rules |-> NoRules]]
  /\ inflight = {}
  /\ calculator = [cache |-> EmptyCache, seen |-> {}]
  /\ last = Resp("init", 0, NoUser, "ok")

\* the names registry requests use: two canonical ones and one that is not
SeedNames == {"parent", "ward", "cousin"}

SeedCreate ==
  \E n \in SeedNames, rules \in {NoRules, [opposite |-> "cousin"]} :
    CreateRelationshipType(n, rules)

SeedUpdateType ==
  \E n \in SeedNames, active \in BOOLEAN : UpdateRelationshipType(n, active)

SeedUpdateRules == \E n \in SeedNames : UpdateRelationshipRules(n, NoRules)

SeedDelete == \E n \in SeedNames : DeleteRelationshipType(n)

NextSeed ==
  \/ SeedDefaults
  \/ SeedCreate
  \/ SeedUpdateType
  \/ SeedUpdateRules
  \/ SeedDelete

SpecSeed == InitUnseeded /\ [][NextSeed]_vars

(* Overlapping sends: the two users invite each other, the requests run   *)
(* their checks and their commit as separate steps, and invitations are    *)
(* cancelled and expire in between.                                        *)
SendRaceBegin ==
  \E u \in Users :
    BeginSendInvitation(u, UserEmail[Other(u)], "spouse", TRUE, FALSE, {}, MaxTtl)

SendRaceCommit == \E r \in inflight : CommitSendInvitation(r)

SendRaceCancel == \E i \in 1..MaxInvitations, u \in Users : CancelInvitation(i, u)

NextSendRace ==
  \/ SendRaceBegin
  \/ SendRaceCommit
  \/ SendRaceCancel
  \/ Tick

SpecSendRace == Init /\ [][NextSendRace]_vars

(* Overlapping accepts: user a shares members with b; accepts run their    *)
(* checks and their commit as separate steps, and b creates and deletes    *)
(* edges of their own in between.                                          *)
AcceptRaceAddMember == AddMember("a", "parent")

AcceptRaceSend ==
  /\ Len(invitations) < MaxGraphInvitations
  /\ SendInvitation("a", UserEmail["b"], "spouse", TRUE, FALSE, {}, MaxTtl)

AcceptRaceBegin ==
  \E t \in 1..MaxGraphInvitations, u \in Users : BeginAcceptInvitation(t, u)

AcceptRaceCommit == \E r \in inflight : CommitAcceptInvitation(r)

AcceptRaceCreate ==
  \E m \in Members : CreateRelationship("b", m, "guardian", TRUE, TRUE)

AcceptRaceDelete == \E e \in edges : e.user_id = "b" /\ DeleteRelationship(e)

NextAcceptRace ==
  \/ AcceptRaceAddMember
  \/ AcceptRaceSend
  \/ AcceptRaceBegin
  \/ AcceptRaceCommit
  \/ AcceptRaceCreate
  \/ AcceptRaceDelete
  \/ Tick

SpecAcceptRace == Init /\ [][NextAcceptRace]_vars

(* Chain: user a shares a member with b, the users grant and withdraw the  *)
(* permissions of the edges they hold and change their relation,           *)
(* and both send further invitations, to each other and to an email no    *)
(* user holds.                                                             *)
ChainEmails == {"a@x", "B@x", "c@x"}

ChainAddMember == members = 0 /\ AddMember("a", "parent")

ChainSend ==
  /\ Len(invitations) < MaxLifecycleInvitations
  /\ \E u \in Users, e \in ChainEmails :
       SendInvitation(u, e, "spouse", TRUE, FALSE, {}, MaxTtl)

ChainAccept ==
  \E t \in 1..MaxLifecycleInvitations, u \in Users : AcceptInvitation(t, u, TRUE)

ChainPermissions ==
  \E e \in edges, p \in BOOLEAN : UpdateRelationshipPermissions(e, p, p)

ChainUpdate == \E e \in edges : UpdateRelationship(e, "guardian")

NextChain ==
  \/ ChainAddMember
  \/ ChainSend
  \/ ChainAccept
  \/ ChainPermissions
  \/ ChainUpdate

SpecChain == Init /\ [][NextChain]_vars

(* Re-creation: user a shares members with b, who creates edges of their  *)
(* own to those members and deletes them, before and after accepting.      *)
RecreateAddMember == AddMember("a", "parent")

RecreateCreate ==
  \E m \in Members : CreateRelationship("b", m, "guardian", TRUE, TRUE)

RecreateDelete == \E e \in edges : e.user_id = "b" /\ DeleteRelationship(e)

RecreateSend ==
  /\ Len(invitations) < MaxGraphInvitations
  /\ SendInvitation("a", UserEmail["b"], "spouse", TRUE, FALSE, {}, MaxTtl)

RecreateAccept ==
  \E t \in 1..MaxGraphInvitations, u \in Users : AcceptInvitation(t, u, TRUE)

NextRecreate ==
  \/ RecreateAddMember
  \/ RecreateCreate
  \/ RecreateDelete
  \/ RecreateSend
  \/ RecreateAccept

SpecRecreate == Init /\ [][NextRecreate]_vars

(* Update: user a invites b with a valid sharing scope and then updates   *)
(* the scope fields of the invitation, one or both at a time.              *)
\* the fields an update request sets
ScopeUpdates ==
  {[share_all_members |-> s] : s \in BOOLEAN}
    \cup {[specific_member_ids |-> ids] : ids \in SUBSET Members}
    \cup {[share_all_members |-> s, specific_member_ids |-> ids] :
            s \in BOOLEAN, ids \in SUBSET Members}

UpdateSend ==
  /\ Len(invitations) < MaxGraphInvitations
  /\ \E sc \in ShareScopes :
       SendInvitation("a", UserEmail["b"], "spouse", sc.share_all, sc.given, sc.ids, MaxTtl)

UpdateCall ==
  \E i \in 1..MaxGraphInvitations, upd \in ScopeUpdates : UpdateInvitation(i, upd)

UpdateAccept ==
  \E t \in 1..MaxGraphInvitations : AcceptInvitation(t, "b", TRUE)

NextUpdate ==
  \/ UpdateSend
  \/ UpdateCall
  \/ UpdateAccept
  \/ Tick

SpecUpdate == Init /\ [][NextUpdate]_vars

(* Validation: user a holds members as parent or spouse, edges are        *)
(* removed, and new relations are validated for every pair.                *)
ValidateRelations == {"parent", "spouse", "child", "guardian", "cousin"}

ValidateAddMember == \E r \in {"parent", "spouse"} : AddMember("a", r)

ValidateDelete == \E e \in edges : DeleteRelationship(e)

ValidateCall ==
  \E u \in Users, m \in Members, r \in ValidateRelations :
    ValidateNewRelationship(u, m, r)

NextValidate ==
  \/ ValidateAddMember
  \/ ValidateDelete
  \/ ValidateCall

SpecValidate == Init /\ [][NextValidate]_vars

(* Connection: the two users invite each other, invitations are accepted  *)
(* and swept as the clock advances, and emails are validated in lower and  *)
(* mixed case, among them one that no user holds.                          *)
ConnectEmails == {"a@x", "A@x", "b@x", "B@x", "c@x"}

ConnectSend ==
  /\ Len(invitations) < MaxLifecycleInvitations
  /\ \E u \in Users :
       SendInvitation(u, UserEmail[Other(u)], "spouse", TRUE, FALSE, {}, MaxTtl)

ConnectAccept ==
  \E t \in 1..MaxLifecycleInvitations, u \in Users : AcceptInvitation(t, u, TRUE)

ConnectValidate ==
  \E u \in Users, e \in ConnectEmails : ValidateInvitationEmail(u, e)

NextConnect ==
  \/ ConnectSend
  \/ ConnectAccept
  \/ ConnectValidate
  \/ ExpireOldInvitations
  \/ Tick

SpecConnect == Init /\ [][NextConnect]_vars

(* Overlapping requests: create-edge requests run their checks and their   *)
(* commit as separate steps, with every other edge operation in between.   *)
RaceAddMember == AddMember("a", "parent")

RaceBegin ==
  \E u \in Users, m \in Members, r \in EdgeRelations :
    BeginCreateRelationship(u, m, r, TRUE, TRUE)

RaceCommit == \E r \in inflight : CommitCreateRelationship(r)

RaceSend ==
  /\ Len(invitations) < MaxGraphInvitations
  /\ SendInvitation("a", UserEmail["b"], "spouse", TRUE, FALSE, {}, MaxTtl)

RaceAccept == \E t \in 1..MaxGraphInvitations : AcceptInvitation(t, "b", TRUE)

RaceUpdate == \E e \in edges : UpdateRelationship(e, "guardian")

RaceDelete == \E e \in edges : DeleteRelationship(e)

NextRace ==
  \/ RaceAddMember
  \/ RaceBegin
  \/ RaceCommit
  \/ RaceSend
  \/ RaceAccept
  \/ RaceUpdate
  \/ RaceDelete

SpecRace == Init /\ [][NextRace]_vars

(***************************************************************************)
(* Properties of acceptance on the family graph (SpecGraph).               *)
(***************************************************************************)
\* the last call was an accept that succeeded
AcceptedNow == last.op = "accept" /\ last.result = "ok"

\* C2: every edge an acceptance creates is non-manager and non-shareable,
\* belongs to the accepting invitee, is created_by the inviter and carries
\* the id of the accepted invitation
C2_DerivedEdgeFields ==
  AcceptedNow =>
    \A e \in last.created :
      /\ e \in edges
      /\ e.is_manager = FALSE
      /\ e.is_shareable = FALSE
      /\ e.user_id = last.user
      /\ e.user_id = invitations[last.id].invitee_user_id
      /\ e.created_by_user_id = invitations[last.id].inviter_user_id
      /\ e.invitation_id = last.id

\* an acceptance has created an edge from a source edge of the inviter
C2_Witness ==
  /\ AcceptedNow
  /\ \E e \in last.created : \E c \in edges :
       /\ c.user_id = invitations[last.id].inviter_user_id
       /\ c.member_id = e.member_id
       /\ c.is_manager /\ c.is_shareable

\* C3: accept is all-or-nothing.  After an accept whose commit failed the
\* invitation is PENDING with invitee_user_id and responded_at unset and has
\* no derived edge; in every state the derived edges of an invitation exist
\* only if it is ACCEPTED, and after a successful accept the edges of the
\* invitation in the store are exactly the ones the acceptance derived
C3_AcceptAtomic ==
  /\ (last.op = "accept" /\ last.result = "storage_error") =>
       /\ invitations[last.id].status = PENDING
       /\ invitations[last.id].invitee_user_id = NoUser
       /\ invitations[last.id].responded_at = NoTime
       /\ \A e \in edges : e.invitation_id # last.id
  /\ \A e \in edges :
       e.invitation_id # 0 => invitations[e.invitation_id].status = ACCEPTED
  /\ AcceptedNow =>
       {e \in edges : e.invitation_id = last.id} = last.created

\* an accept that had an edge to persist failed at commit
C3_Witness ==
  /\ last.op = "accept" /\ last.result = "storage_error"
  /\ derived_edges(edges, types, accepted(invitations[last.id], last.user, now),
                   last.id, last.user) # {}

\* C4: an accept of an already accepted invitation fails with invalid-state
\* and changes neither the edges nor the invitation
C4_SecondAccept ==
  [][\A t \in DOMAIN invitations :
       (invitations[t].status = ACCEPTED /\ last'.op = "accept" /\ last'.id = t)
         => /\ last'.result = "invalid_state"
            /\ last'.created = {}
            /\ edges' = edges
            /\ invitations' = invitations]_vars

\* a second accept was refused on an invitation whose first acceptance
\* created edges
C4_Witness ==
  /\ last.op = "accept" /\ last.result = "invalid_state"
  /\ last.id \in DOMAIN invitations
  /\ invitations[last.id].status = ACCEPTED
  /\ \E e \in edges : e.invitation_id = last.id

\* the candidate edges of invitation inv in table E, as the design states
\* them: the inviter's active, shareable, manager edges, within the
\* allowlist unless all members are shared
Candidates(E, inv) ==
  {c \in E : /\ c.user_id = inv.inviter_user_id
             /\ c.is_active /\ c.is_shareable /\ c.is_manager
             /\ (inv.share_all_members \/ c.member_id \in inv.specific_member_ids)}

\* calculateDerived(r1, r2) on the registry of the state
Derived(r1, r2) == calculate_derived_relationship(EmptyCache, types, r1, r2).result

\* the (user, member, relation) triples of a set of edges
Triples(E) ==
  {[user_id |-> e.user_id, member_id |-> e.member_id, relation |-> e.relation] : e \in E}

\* C8: a successful accept creates one edge (invitee, member, R3) for each
\* candidate edge (member, R1) whose R3 = calculateDerived(R1, intended) is
\* defined and whose member the invitee has no active edge to, and nothing
\* else; inviter parent, intended spouse gives step_parent; the invitation
\* is ACCEPTED with invitee_user_id the invitee
C8_ExactEdges ==
  [][(last'.op = "accept" /\ last'.result = "ok") =>
       LET inv == invitations[last'.id]
           u == last'.user
           r2 == IF inv.intended_relationship = NoRel THEN "family"
                 ELSE inv.intended_relationship
           sources == {c \in Candidates(edges, inv) :
                         /\ Derived(c.relation, r2) # NoRel
                         /\ ~\E e \in edges : /\ e.user_id = u
                                              /\ e.member_id = c.member_id
                                              /\ e.is_active}
       IN /\ edges \subseteq edges'
          /\ Triples(edges' \ edges) =
               {[user_id |-> u, member_id |-> c.member_id,
                 relation |-> Derived(c.relation, r2)] : c \in sources}
          /\ Cardinality(edges' \ edges) = Cardinality(sources)
          /\ \A c \in sources : (c.relation = "parent" /\ r2 = "spouse") =>
               \E e \in edges' \ edges : /\ e.member_id = c.member_id
                                         /\ e.relation = "step_parent"
          /\ invitations'[last'.id].status = ACCEPTED
          /\ invitations'[last'.id].invitee_user_id = u]_vars

\* the scenario of the design: the inviter is parent of a member, the
\* intended relationship is spouse, and the acceptance created exactly the
\* step_parent edge, while another candidate edge of the inviter gave none
C8_Witness ==
  /\ AcceptedNow
  /\ Cardinality(last.created) = 1
  /\ \E e \in last.created : e.relation = "step_parent" /\ e.user_id = "b"
  /\ invitations[last.id].intended_relationship = "spouse"
  /\ Cardinality(Candidates(edges, invitations[last.id])) = 2

\* C9: every edge an acceptance creates targets a member to which the
\* inviter, at that time, holds an active, shareable, manager edge, and which
\* is in the allowlist when share_all_members is false
C9_OnlyManagedShared ==
  [][(last'.op = "accept" /\ last'.result = "ok") =>
       LET inv == invitations[last'.id] IN
       \A e \in edges' \ edges :
         /\ \E c \in edges : /\ c.user_id = inv.inviter_user_id
                             /\ c.member_id = e.member_id
                             /\ c.is_active /\ c.is_shareable /\ c.is_manager
         /\ ~inv.share_all_members => e.member_id \in inv.specific_member_ids]_vars

\* an acceptance with an allowlist created an edge while leaving out a
\* derivable non-manager edge of the inviter and a derivable member outside
\* the allowlist
C9_Witness ==
  /\ AcceptedNow
  /\ last.created # {}
  /\ ~invitations[last.id].share_all_members
  /\ \E c \in edges : /\ c.user_id = invitations[last.id].inviter_user_id
                      /\ c.relation = "parent" /\ c.is_active
                      /\ (~c.is_manager \/ c.member_id \notin invitations[last.id].specific_member_ids)
                      /\ \A e \in edges : e.user_id = "b" => e.member_id # c.member_id

(***************************************************************************)
(* Properties of the invitation lifecycle (SpecLifecycle).                 *)
(***************************************************************************)
\* C1: once an invitation's status is ACCEPTED, DECLINED, EXPIRED or
\* CANCELLED, no accept, decline, cancel, update or expire-sweep call, at any
\* clock value, changes its status again.
C1_TerminalIsSink ==
  [][\A i \in DOMAIN invitations :
       invitations[i].status \in Terminal
         => /\ i \in DOMAIN invitations'
            /\ invitations'[i].status = invitations[i].status]_vars

\* C1 happens: the sweep has just run over a table holding an answered
\* invitation whose expiry has passed, and a mutator has been refused on a
\* terminal invitation before
C1_Witness ==
  /\ last.op = "expire"
  /\ \E i \in DOMAIN invitations :
       /\ invitations[i].status \in {ACCEPTED, DECLINED, CANCELLED}
       /\ invitations[i].expires_at <= now
  /\ \E j \in DOMAIN invitations : invitations[j].status = EXPIRED

\* C5: accepting a PENDING invitation whose expires_at equals the current
\* time fails with an invalid-state error and creates no edges.
C5_AcceptAtExpiryFails ==
  [][\A t \in DOMAIN invitations :
       ( /\ invitations[t].status = PENDING
         /\ invitations[t].expires_at = now
         /\ last'.op = "accept"
         /\ last'.id = t )
       => /\ last'.result = "invalid_state"
          /\ edges' = edges
          /\ invitations' = invitations]_vars

(***************************************************************************)
(* Properties of the edge table under overlapping requests (SpecRace).     *)
(***************************************************************************)
\* C6: in every reachable state there is at most one active edge for each
\* (user_id, member_id) pair.
C6_OneActiveEdgePerPair ==
  \A e1, e2 \in edges :
    ( /\ e1.user_id = e2.user_id
      /\ e1.member_id = e2.member_id
      /\ e1.is_active
      /\ e2.is_active ) => e1 = e2

\* C6 happens: a create request that had passed its checks was refused at
\* its commit, because the pair got its active edge in between
C6_Witness ==
  /\ last.op = "create_edge"
  /\ last.result = "storage_error"
  /\ \E e \in edges : e.user_id = last.user
  /\ \A e \in edges : e.is_active

(***************************************************************************)
(* Properties of repeated invitations of one pair (SpecInvite).            *)
(***************************************************************************)
\* the invitations that are PENDING with expires_at > now
Live == {i \in DOMAIN invitations : /\ invitations[i].status = PENDING
                                     /\ invitations[i].expires_at > now}

\* C7: in every reachable state there is at most one invitation with status
\* PENDING and expires_at > now for each (inviter, invitee_email) pair.
C7_OneLiveInvitationPerPair ==
  \A i, j \in Live :
    ( /\ invitations[i].inviter_user_id = invitations[j].inviter_user_id
      /\ invitations[i].invitee_email = invitations[j].invitee_email ) => i = j

\* C7 happens: a PENDING invitation of the pair is past its expiry and not
\* swept, a second one is live, and a third request has just been refused
C7_Witness ==
  /\ last.op = "send"
  /\ last.result = "pending_exists"
  /\ Live # {}
  /\ \E i \in DOMAIN invitations :
       /\ invitations[i].status = PENDING
       /\ invitations[i].expires_at < now

(***************************************************************************)
(* Properties of the calculator (SpecCalc).                                *)
(***************************************************************************)
\* C10: when the active type r1 has a calculation_rules entry under the key
\* "<r2>_relation" and the fallback table has an entry for (r1, r2) too, the
\* calculation returns the calculation_rules value, also when the two differ.
C10_RulesBeforeFallback ==
  last.op = "calculate" =>
    LET r1 == last.args[1]
        r2 == last.args[2]
    IN ( /\ r1 \in DOMAIN types
         /\ types[r1].is_active
         /\ (r2 \o "_relation") \in DOMAIN types[r1].calculation_rules
         /\ r1 \in DOMAIN fallback_patterns
         /\ r2 \in DOMAIN fallback_patterns[r1] )
       => last.derived = types[r1].calculation_rules[r2 \o "_relation"]

\* C10 happens: a pair was calculated whose rules entry and fallback entry
\* both exist and differ
C10_Witness ==
  /\ last.op = "calculate"
  /\ last.args = <<"parent", "spouse">>
  /\ types["parent"].is_active
  /\ "spouse_relation" \in DOMAIN types["parent"].calculation_rules
  /\ types["parent"].calculation_rules["spouse_relation"] = "guardian"
  /\ fallback_patterns["parent"]["spouse"] = "step_parent"
  /\ last.derived = "guardian"

(***************************************************************************)
(* Properties of the fallback path of the calculator (SpecFallback).       *)
(***************************************************************************)
\* the 14 pairs of the fallback table, as the specification lists them
FallbackTable ==
  {<<"parent", "spouse", "step_parent">>, <<"parent", "sibling", "aunt_uncle">>,
   <<"parent", "parent", "grandparent">>, <<"child", "spouse", "step_child">>,
   <<"child", "sibling", "niece_nephew">>, <<"child", "child", "grandchild">>,
   <<"spouse", "child", "step_child">>, <<"spouse", "parent", "parent_in_law">>,
   <<"spouse", "sibling", "sibling_in_law">>, <<"sibling", "spouse", "sibling_in_law">>,
   <<"sibling", "child", "niece_nephew">>, <<"sibling", "parent", "aunt_uncle">>,
   <<"grandparent", "spouse", "step_grandparent">>,
   <<"grandchild", "spouse", "step_grandchild">>}

\* the active type r1 has a calculation_rules entry for r2
HasRule(r1, r2) ==
  /\ r1 \in DOMAIN types
  /\ types[r1].is_active
  /\ (r2 \o "_relation") \in DOMAIN types[r1].calculation_rules

\* C11: when r1 has no calculation_rules entry for "<r2>_relation" (r1
\* unknown, inactive or without rules included), the calculation returns the
\* fallback table's value for the 14 listed pairs and none, without raising,
\* for every other pair.
C11_FallbackOrNone ==
  (last.op = "calculate" /\ ~HasRule(last.args[1], last.args[2])) =>
    /\ last.result = "ok"
    /\ \A t \in FallbackTable :
         (t[1] = last.args[1] /\ t[2] = last.args[2]) => last.derived = t[3]
    /\ (\A t \in FallbackTable : ~(t[1] = last.args[1] /\ t[2] = last.args[2]))
         => last.derived = NoRel

\* C11 happens: a pair outside the fallback table was calculated for a
\* deactivated type whose stored rules have an entry for it, and gave none
C11_Witness ==
  /\ last.op = "calculate"
  /\ last.args = <<"grandparent", "sibling">>
  /\ ~types["grandparent"].is_active
  /\ "sibling_relation" \in DOMAIN types["grandparent"].calculation_rules
  /\ last.derived = NoRel

(***************************************************************************)
(* Properties of the rules cache (SpecCache).                              *)
(***************************************************************************)
\* C12: for a fixed registry, two calls with the same inputs return the same
\* result, on one instance (the later call answered from its cache) as on
\* new instances, in any order relative to calls with other inputs.
C12_Deterministic ==
  /\ \A s1, s2 \in calculator.seen :
       (s1[1] = s2[1] /\ s1[2] = s2[2]) => s1[3] = s2[3]
  /\ \A s \in calculator.seen :
       s[3] = calculate_derived_relationship(EmptyCache, types, s[1], s[2]).result

\* C12 happens: the instance has answered for guardian first and then twice
\* for parent, whose rules contradict the fallback table, the later answer
\* coming from the cache
C12_Witness ==
  /\ last.op = "calculate_on"
  /\ last.args = <<"parent", "spouse">>
  /\ last.derived = "guardian"
  /\ <<"parent", "family", NoRel>> \in calculator.seen
  /\ \E s \in calculator.seen : s[1] = "guardian"
  /\ DOMAIN calculator.cache = {"parent", "guardian"}

(***************************************************************************)
(* Properties of the failures of accept (SpecLifecycle).                   *)
(***************************************************************************)
\* the stored email of user u does not match the invitation's, case ignored
EmailMismatch(u, inv) == Lower(UserEmail[u]) # Lower(inv.invitee_email)

\* C13: accept checks the token first, then the state (PENDING and not
\* expired), then the invitee's email (case-insensitively), and fails with
\* not-found, invalid-state and email-mismatch respectively; on each of these
\* failures the invitations and the edges are unchanged.
C13_AcceptCheckOrder ==
  [][last'.op = "accept" =>
       LET t == last'.id
           u == last'.user
       IN /\ t \notin DOMAIN invitations => last'.result = "not_found"
          /\ ( /\ t \in DOMAIN invitations
               /\ \/ invitations[t].status # PENDING
                  \/ now > invitations[t].expires_at )
             => last'.result = "invalid_state"
          /\ ( /\ t \in DOMAIN invitations
               /\ invitations[t].status = PENDING
               /\ now < invitations[t].expires_at
               /\ EmailMismatch(u, invitations[t]) )
             => last'.result = "email_mismatch"
          /\ ( /\ t \in DOMAIN invitations
               /\ invitations[t].status = PENDING
               /\ now < invitations[t].expires_at
               /\ ~EmailMismatch(u, invitations[t]) )
             => last'.result = "ok"
          /\ last'.result \in {"not_found", "invalid_state", "email_mismatch"}
             => /\ invitations' = invitations
                /\ edges' = edges]_vars

\* C13 happens: an accept by a user whose email does not match, on a PENDING
\* invitation past its expiry, was refused for the state, not for the email
C13_Witness ==
  /\ last.op = "accept"
  /\ last.result = "invalid_state"
  /\ last.id \in DOMAIN invitations
  /\ EmailMismatch(last.user, invitations[last.id])
  /\ invitations[last.id].status = PENDING
  /\ now > invitations[last.id].expires_at

(***************************************************************************)
(* Properties of invitations without an intended relationship              *)
(* (SpecFamily).                                                           *)
(***************************************************************************)
\* C14: accepting an invitation whose intended_relationship is unset derives
\* no relationship under the seeded registry, creates zero edges and still
\* succeeds: the invitation becomes ACCEPTED and the returned list is empty.
C14_UnsetIntendedDerivesNothing ==
  [][( /\ last'.op = "accept"
       /\ last'.id \in DOMAIN invitations
       /\ invitations[last'.id].intended_relationship = NoRel
       /\ last'.result \notin {"invalid_state", "email_mismatch"} )
     => /\ last'.result = "ok"
        /\ last'.created = {}
        /\ edges' = edges
        /\ invitations'[last'.id].status = ACCEPTED
        /\ invitations'[last'.id].invitee_user_id = last'.user]_vars

\* C14 happens: the inviter held shareable manager edges under relations of
\* the fallback table when the invitation without a relationship was accepted
C14_Witness ==
  /\ AcceptedNow
  /\ invitations[last.id].intended_relationship = NoRel
  /\ last.created = {}
  /\ \E e \in edges : e.user_id = "a" /\ e.relation = "parent"
  /\ \E e \in edges : e.user_id = "a" /\ e.relation = "spouse"
  /\ \A e \in edges : e.user_id = "a"

(***************************************************************************)
(* Properties of mutators on terminal invitations (SpecLifecycle).         *)
(***************************************************************************)
\* C15: accept, decline, cancel by the inviter and update, applied to an
\* invitation in a terminal state, return a state-conflict error and leave
\* every field of the invitation unchanged.
C15_TerminalMutatorsFail ==
  [][( /\ last'.op \in {"accept", "decline", "cancel", "update"}
       /\ last'.id \in DOMAIN invitations
       /\ invitations[last'.id].status \in Terminal
       /\ last'.op = "cancel" => last'.user = invitations[last'.id].inviter_user_id )
     => /\ last'.result = "invalid_state"
        /\ invitations' = invitations]_vars

\* C15 happens: an update was refused on an invitation the sweep had marked
\* EXPIRED, in a table that also holds an answered or cancelled invitation
C15_Witness ==
  /\ last.op = "update"
  /\ last.result = "invalid_state"
  /\ last.id \in DOMAIN invitations
  /\ invitations[last.id].status = EXPIRED
  /\ \E i \in DOMAIN invitations :
       invitations[i].status \in {ACCEPTED, DECLINED, CANCELLED}

\* C16: cancel moves the invitation to CANCELLED only when the requester is
\* the inviter and the invitation passes the state check of accept and
\* decline (status PENDING and not past expires_at); in every other case the
\* invitation is left unchanged.
C16_CancelSameStateCheck ==
  [][last'.op = "cancel" =>
       LET id == last'.id
       IN invitations' # invitations =>
            /\ id \in DOMAIN invitations
            /\ last'.user = invitations[id].inviter_user_id
            /\ invitations[id].status = PENDING
            /\ ~(now > invitations[id].expires_at)
            /\ invitations' = [invitations EXCEPT ![id].status = CANCELLED]]_vars

\* the PENDING invitations with expires_at <= now
Due == {i \in DOMAIN invitations : /\ invitations[i].status = PENDING
                                    /\ invitations[i].expires_at <= now}

\* C17: the sweep moves exactly the invitations with status PENDING and
\* expires_at <= now to EXPIRED, returns their count and leaves every other
\* invitation and every edge unchanged; run again with the clock unchanged,
\* it returns 0 and changes nothing.
C17_SweepExactAndIdempotent ==
  [][last'.op = "expire" =>
       /\ DOMAIN invitations' = DOMAIN invitations
       /\ \A i \in DOMAIN invitations :
            invitations'[i] = IF i \in Due
                              THEN [invitations[i] EXCEPT !.status = EXPIRED]
                              ELSE invitations[i]
       /\ last'.count = Cardinality(Due)
       /\ edges' = edges
       /\ last.op = "expire" => (last'.count = 0 /\ invitations' = invitations)]_vars

\* C17 happens: the sweep has expired an invitation whose expires_at equals
\* the clock and has left a PENDING invitation that expires later
C17_Witness ==
  /\ last.op = "expire"
  /\ last.count >= 1
  /\ \E i \in DOMAIN invitations :
       invitations[i].status = EXPIRED /\ invitations[i].expires_at = now
  /\ \E j \in DOMAIN invitations :
       invitations[j].status = PENDING /\ invitations[j].expires_at > now

(***************************************************************************)
(* Properties of the sharing scope of created invitations (SpecScope).     *)
(***************************************************************************)
\* C18: creating an invitation with share_all_members true and a non-empty
\* specific_member_ids fails validation, and so does creating one with
\* share_all_members false and an empty or absent specific_member_ids; hence
\* every created invitation has exactly one of the two scopes populated.
C18_ExactlyOneScope ==
  \A i \in DOMAIN invitations :
    \/ invitations[i].share_all_members /\ invitations[i].specific_member_ids = {}
    \/ ~invitations[i].share_all_members /\ invitations[i].specific_member_ids # {}

(***************************************************************************)
(* Properties of relationship validation (SpecValidate).                   *)
(***************************************************************************)
\* the conflict table of the specification: X conflicts with Y
Conflicting(x, y) ==
  \/ {x, y} \subseteq {"parent", "child", "sibling", "spouse"} /\ x # y
  \/ {x, y} = {"grandparent", "grandchild"}

\* C19: validating relation X for a pair returns ok = false with a reason
\* whenever an active edge of that pair carries a relation Y that conflicts
\* with X, in both directions: spouse over an active parent edge fails just
\* as parent over an active spouse edge does.
C19_ConflictRejected ==
  (last.op = "validate" /\
   \E e \in edges : /\ e.user_id = last.user
                    /\ e.member_id = last.id
                    /\ e.is_active
                    /\ Conflicting(last.args[1], e.relation))
  => last.result \in {"already_exists", "conflict"}

(***************************************************************************)
(* Properties of invitation email validation (SpecConnect).                *)
(***************************************************************************)
\* the users owning email e, case ignored as accept ignores it
Owners(e) == {u \in Users : Lower(UserEmail[u]) = Lower(e)}

\* an ACCEPTED invitation exists between users u and v, in either direction
Connected(u, v) ==
  \E i \in DOMAIN invitations :
    /\ invitations[i].status = ACCEPTED
    /\ \/ invitations[i].inviter_user_id = u /\ invitations[i].invitee_user_id = v
       \/ invitations[i].inviter_user_id = v /\ invitations[i].invitee_user_id = u

\* C20: validating an email returns ok = false when the lowercased email is
\* the inviter's own, when a PENDING unexpired invitation of the inviter to
\* that email exists, or when an ACCEPTED invitation exists between the
\* inviter and the user owning that email, in either direction; it returns
\* ok = true in every other case and never modifies state.
C20_ValidateEmail ==
  [][last'.op = "validate_email" =>
       LET u == last'.user
           e == last'.args[1]
           refused ==
             \/ Lower(e) = Lower(UserEmail[u])
             \/ \E i \in Live : /\ invitations[i].inviter_user_id = u
                                /\ invitations[i].invitee_email = Lower(e)
             \/ \E v \in Owners(e) : Connected(u, v)
       IN /\ (last'.result = "ok") <=> ~refused
          /\ UNCHANGED <<now, invitations, edges, members, types>>]_vars

(***************************************************************************)
(* Properties of the preview (SpecPreview).                                *)
(***************************************************************************)
\* C21: the preview of a pending invitation succeeds and reports, for
\* exactly the candidate inviter edges accept would use (active, shareable
\* and manager, restricted to the allowlist when share_all_members is
\* false), the member and the relation accept would derive; it leaves
\* invitations and edges as they were.
C21_PreviewAsAccept ==
  [][(/\ last'.op = "preview"
      /\ last'.id \in DOMAIN invitations
      /\ is_pending(invitations[last'.id], now))
       => LET inv == invitations[last'.id]
          IN /\ last'.result = "ok"
             /\ last'.created =
                  {<<c.member_id, Derived(c.relation, intended_or_family(inv))>> :
                     c \in get_members_to_share(edges, inv)}
             /\ UNCHANGED <<invitations, edges>>]_vars

(***************************************************************************)
(* Properties of the seeding of the registry (SpecSeed).                   *)
(***************************************************************************)
\* C22: after any sequence of seed, create, update and deactivate
\* operations, seeding succeeds, it adds exactly the canonical types whose
\* name no type of the registry has, it leaves every other type as it was,
\* and a seeding that directly follows a seeding creates no type.
C22_SeedIdempotent ==
  [][last'.op = "seed" =>
       LET absent == DOMAIN DefaultTypes \ DOMAIN types
       IN /\ last'.result = "ok"
          /\ last'.count = Cardinality(absent)
          /\ DOMAIN types' = DOMAIN types \cup absent
          /\ \A n \in DOMAIN types : types'[n] = types[n]
          /\ \A n \in absent : types'[n] = DefaultTypes[n]
          /\ last.op = "seed" => last'.count = 0]_vars

(***************************************************************************)
(* Properties of overlapping sends (SpecSendRace).                         *)
(***************************************************************************)
\* C23: of the create requests for one (inviter, invitee_email) pair that
\* overlap, at most one succeeds: whatever the interleaving of their checks
\* and inserts, the pair counts at most one invitation that is PENDING and
\* not past its expires_at.
C23_OneOfOverlappingSends ==
  \A u \in Users :
    Cardinality({i \in DOMAIN invitations :
                   /\ invitations[i].inviter_user_id = u
                   /\ invitations[i].invitee_email = Lower(UserEmail[Other(u)])
                   /\ is_pending(invitations[i], now)}) <= 1

(***************************************************************************)
(* Properties of overlapping accepts (SpecAcceptRace).                     *)
(***************************************************************************)
\* C24: an accept whose commit meets an edge that another request has
\* inserted for the same (user, member) pair since its checks skips that
\* edge: it succeeds, its invitation becomes ACCEPTED and its other derived
\* edges are committed.
C24_UniqueViolationSkipped ==
  [][\A r \in inflight :
       ( /\ inflight' = inflight \ {r}
         /\ last'.op = "accept"
         /\ \E e \in r.new : unique_violation(edges, e) )
       => /\ last'.result = "ok"
          /\ invitations'[r.token].status = ACCEPTED
          /\ \A e \in r.new : ~unique_violation(edges, e) => e \in edges']_vars

\* C30: of two accepts of one invitation that both read it as PENDING, the
\* one that commits second does not succeed and leaves invitee_user_id and
\* responded_at as the first set them, and the invitee never holds two
\* derived edges to one member.
C30_OneOfOverlappingAccepts ==
  [][\A r \in inflight :
       ( /\ inflight' = inflight \ {r}
         /\ last'.op = "accept"
         /\ invitations[r.token].status = ACCEPTED )
       => /\ last'.result # "ok"
          /\ invitations' = invitations
          /\ \A m \in Members :
               Cardinality({e \in edges' : /\ e.user_id = r.user
                                           /\ e.member_id = m
                                           /\ e.invitation_id # 0}) <= 1]_vars

(***************************************************************************)
(* Properties of successive invitations (SpecChain).                       *)
(***************************************************************************)
\* C25: derived edges do not propagate: whatever the users have done to
\* their edges, no edge with invitation_id set is among the candidate edges
\* of an invitation its user has sent.
C25_DerivedNeverCandidate ==
  \A i \in DOMAIN invitations :
    \A c \in get_members_to_share(edges, invitations[i]) : c.invitation_id = 0

(***************************************************************************)
(* Properties of the relation of edges under the seeded registry           *)
(* (SpecFamily).                                                           *)
(***************************************************************************)
\* C26: the relation of every edge names a type of the registry; with the
\* registry as seeded, every relation an accept derives for a candidate edge
\* names a registered type, and no accept fails on the foreign reference of
\* relation.
C26_RelationsRegistered ==
  /\ \A e \in edges : e.relation \in DOMAIN types
  /\ \A i \in DOMAIN invitations :
       \A c \in get_members_to_share(edges, invitations[i]) :
         LET r3 == Derived(c.relation, intended_or_family(invitations[i]))
         IN r3 # NoRel => r3 \in DOMAIN types
  /\ last.op = "accept" => last.result # "storage_error"

(***************************************************************************)
(* Properties of re-creation after a soft delete (SpecRecreate).           *)
(***************************************************************************)
\* the edges of user u to member m
PairEdges(E, u, m) == {e \in E : e.user_id = u /\ e.member_id = m}

\* the only edges u holds to m are inactive
OnlyInactive(E, u, m) ==
  PairEdges(E, u, m) # {} /\ \A e \in PairEdges(E, u, m) : ~e.is_active

\* u holds exactly one active edge to m
OneActive(E, u, m) == Cardinality({e \in PairEdges(E, u, m) : e.is_active}) = 1

\* C27: a soft-deleted edge does not block re-creation.  A direct creation
\* for a pair whose only edge is inactive succeeds and leaves the pair with
\* exactly one active edge; so does an accept, for every candidate member
\* with a derivable relation; and an accept that has passed its checks
\* does not fail, whatever edges the invitee holds.
C27_InactiveEdgeDoesNotBlock ==
  [][/\ ( /\ last'.op = "create_edge"
          /\ OnlyInactive(edges, last'.user, last'.args[1]) )
          => OneActive(edges', last'.user, last'.args[1])
     /\ ( /\ last'.op = "accept"
          /\ accept_check(invitations, last'.id, last'.user, now) = "" )
          => /\ last'.result = "ok"
             /\ \A c \in get_members_to_share(edges, invitations[last'.id]) :
                  ( /\ Derived(c.relation, intended_or_family(invitations[last'.id])) # NoRel
                    /\ OnlyInactive(edges, last'.user, c.member_id) )
                  => OneActive(edges', last'.user, c.member_id)]_vars

(***************************************************************************)
(* Properties of the sharing scope under updates (SpecUpdate).             *)
(***************************************************************************)
\* C28: after any sequence of creations and updates, a pending invitation
\* shares all members and lists no member id, or does not share all members
\* and lists at least one member id.
C28_ScopeExclusiveUnderUpdate ==
  \A i \in DOMAIN invitations :
    invitations[i].status = PENDING =>
      (invitations[i].share_all_members <=> invitations[i].specific_member_ids = {})

(***************************************************************************)
(* Properties of connections between users (SpecConnect).                  *)
(***************************************************************************)
\* C29: two users are connected at most once: whatever the order of sends
\* that passed the email validation and of accepts, at most one ACCEPTED
\* invitation exists between two users, counting both directions.
C29_ConnectedOnce ==
  \A u, v \in Users :
    Cardinality({i \in DOMAIN invitations :
                   /\ invitations[i].status = ACCEPTED
                   /\ {invitations[i].inviter_user_id,
                       invitations[i].invitee_user_id} = {u, v}}) <= 1

====
